---- MODULE Spec2Model ----
(***************************************************************************)
(* Model of the two scripts of pkdone/mongo-utils:                         *)
(*   MOTVehicleData/mdb-mot-agg-cars-facets.py  (the two-facet aggregation)*)
(*   SimpleRandomInserts/insertdata.py          (the continuous inserter)  *)
(* The aggregation stages ($match, $group, $sort, $bucketAuto, $project,   *)
(* $facet) are modelled by what the server does with the stage documents   *)
(* the script builds.  Bucket boundaries are doubles in the server; they   *)
(* are kept here in tenths (0.5 is 5, 2.0 is 20).                          *)
(***************************************************************************)
EXTENDS Integers, Sequences, FiniteSets, TLC

VARIABLES
    source,     \* the documents of mot.testresults, in collection order
    pc,         \* position of mot_vehicle_aggregate
    client,     \* "none" | "open" | "closed": the MongoClient's connection
    result,     \* the list the aggregate call returned
    out,        \* what the aggregation script printed so far
    requests,   \* number of aggregate requests issued
    ipc,        \* position of the insertion script
    count,      \* insertdata.py: count
    records,    \* insertdata.py: the documents stored in testdb.records
    attempts,   \* insertdata.py: the counts handed to insert, in order
    dots,       \* insertdata.py: number of '.' printed
    failedAt    \* insertdata.py: count of the insert that raised, 0 if none

aggVars == <<source, pc, client, result, out, requests>>
insVars == <<ipc, count, records, attempts, dots, failedAt>>
vars == <<source, pc, client, result, out, requests,
          ipc, count, records, attempts, dots, failedAt>>

(***************************************************************************)
(* Bounds                                                                  *)
(***************************************************************************)
MaxRecords == 2      \* longest source enumerated record by record
MaxFleet == 29       \* most Makes with two Models each in a larger source
MaxCount == 6        \* the inserter's loop is followed up to this count

(***************************************************************************)
(* Program constants                                                       *)
(***************************************************************************)
SHOW_EXPLAIN_PLAN == FALSE
UNCLASSIFIED == "UNCLASSIFIED"
buckets == 20
DotEvery == 5

Makes == {"A", "B", UNCLASSIFIED}
Models == {"X", "Y", UNCLASSIFIED}
FuelTypes == {"PE", "DI"}
Values == {0, 9999}

Record == [Make : Makes, Model : Models, FuelType : FuelTypes]

(***************************************************************************)
(* Helpers on sequences                                                    *)
(***************************************************************************)
Range(s) == {s[i] : i \in 1..Len(s)}

RECURSIVE SeqsUpTo(_, _)
SeqsUpTo(S, n) ==
    IF n = 0 THEN {<<>>}
    ELSE LET shorter == SeqsUpTo(S, n - 1)
         IN  shorter \cup {Append(s, x) : s \in {t \in shorter : Len(t) = n - 1}, x \in S}

(***************************************************************************)
(* Pipeline stages.  A $group stage yields its documents in no particular  *)
(* order, so its output is a set; the other stages yield sequences.        *)
(***************************************************************************)

\* $group with {'$sum': 1}, keys giving the key of every input: one output
\* document per distinct key, carrying the number of inputs with that key.
Group(keys) ==
    {[_id |-> k, sum |-> Cardinality({i \in DOMAIN keys : keys[i] = k})] :
        k \in {keys[i] : i \in DOMAIN keys}}

\* GroupByFuelType opening a new group at every change of FuelType from one
\* document to the next, instead of one group per FuelType.
GroupByFuelTypeRuns(docs) ==
    LET starts == {i \in 1..Len(docs) : i = 1 \/ docs[i - 1].FuelType # docs[i].FuelType}
        run(i) == {j \in i..Len(docs) : \A m \in i..j : docs[m].FuelType = docs[i].FuelType}
    IN  {[_id |-> docs[i].FuelType, CarAmount |-> Cardinality(run(i))] : i \in starts}

\* {'$group': {'_id': '$FuelType', 'CarAmount': {'$sum': 1}}}
GroupByFuelType(docs) ==
    {[_id |-> g._id, CarAmount |-> g.sum] :
        g \in Group([i \in 1..Len(docs) |-> docs[i].FuelType])}

\* SortByCarAmount with direction 1 instead of -1.
SortByCarAmountAscending(docs) ==
    {s \in [1..Cardinality(docs) -> docs] :
        /\ \A i, j \in 1..Cardinality(docs) : s[i] = s[j] => i = j
        /\ \A i \in 1..Cardinality(docs) - 1 : s[i].CarAmount <= s[i + 1].CarAmount}

\* {'$sort': SON([('CarAmount', -1)])}: every listing of the input that is
\* descending by CarAmount (the order among equal CarAmounts is not fixed).
SortByCarAmount(docs) ==
    {s \in [1..Cardinality(docs) -> docs] :
        /\ \A i, j \in 1..Cardinality(docs) : s[i] = s[j] => i = j
        /\ \A i \in 1..Cardinality(docs) - 1 : s[i].CarAmount >= s[i + 1].CarAmount}

\* {'$project': {'_id': 0, 'FuelType': '$_id', 'CarAmount': 1}}
ProjectFuelType(docs) ==
    [i \in 1..Len(docs) |->
        [FuelType |-> docs[i]._id, CarAmount |-> docs[i].CarAmount]]

\* The outputs the CategorisedCarsByFuelType facet can produce for docs.
get_pipeline_categorised_cars_by_fuel_type(docs) ==
    {ProjectFuelType(s) : s \in SortByCarAmount(GroupByFuelType(docs))}

\* Match with '$or' in place of '$and'.
MatchEither(docs) ==
    SelectSeq(docs, LAMBDA d : d.Make # UNCLASSIFIED \/ d.Model # UNCLASSIFIED)

\* {'$match': {'$and': [{'Make': {'$ne': ..}}, {'Model': {'$ne': ..}}]}}
Match(docs) ==
    SelectSeq(docs, LAMBDA d : d.Make # UNCLASSIFIED /\ d.Model # UNCLASSIFIED)

\* GroupByMakeModel keyed by each document itself (its position included),
\* so that equal (Make, Model) pairs are not merged.
GroupByMakeModelUnmerged(docs) ==
    {[_id |-> [Make |-> docs[i].Make, Model |-> docs[i].Model, at |-> i]] :
        i \in 1..Len(docs)}

\* {'$group': {'_id': {'Make': '$Make', 'Model': '$Model'}}}
GroupByMakeModel(docs) ==
    {[_id |-> g._id] :
        g \in Group([i \in 1..Len(docs) |->
                        [Make |-> docs[i].Make, Model |-> docs[i].Model]])}

\* {'$group': {'_id': '$_id.Make', 'ModelTypes': {'$sum': 1}}}
GroupByMake(docs) ==
    {[_id |-> g._id, ModelTypes |-> g.sum] : g \in Group([d \in docs |-> d._id.Make])}

(***************************************************************************)
(* $bucketAuto with granularity '1-2-5'                                    *)
(***************************************************************************)
Tenths(n) == 10 * n

\* The 1-2-5 series is m, 2m, 5m for m = ..., 0.1, 1, 10, ...; RoundUp is the
\* smallest member above v, RoundDown the largest member below v (v in
\* tenths, 0 stays 0).
RECURSIVE SeriesAbove(_, _)
SeriesAbove(v, m) ==
    IF v < m THEN m
    ELSE IF v < 2 * m THEN 2 * m
    ELSE IF v < 5 * m THEN 5 * m
    ELSE SeriesAbove(v, 10 * m)

RECURSIVE SeriesBelow(_, _)
SeriesBelow(v, m) ==
    IF v > 10 * m THEN SeriesBelow(v, 10 * m)
    ELSE IF v > 5 * m THEN 5 * m
    ELSE IF v > 2 * m THEN 2 * m
    ELSE m

RoundUp(v) == IF v = 0 THEN 0 ELSE SeriesAbove(v, 1)

RoundDown(v) == IF v = 0 THEN 0 ELSE SeriesBelow(v, 1)

\* The stage's sorter: the groupBy values of the input documents in
\* ascending order (position n holds the value v with fewer than n
\* documents below v and at least n documents not above v).
SortValues(docs) ==
    LET below(v) == Cardinality({d \in docs : d.ModelTypes < v})
        upTo(v)  == Cardinality({d \in docs : d.ModelTypes <= v})
        rank     == [v \in {d.ModelTypes : d \in docs} |-> <<below(v), upTo(v)>>]
    IN  [n \in 1..Cardinality(docs) |->
            CHOOSE v \in DOMAIN rank : rank[v][1] < n /\ n <= rank[v][2]]

\* round(nDocuments / nBuckets), halves away from zero, and at least 1.
ApproxBucketSize(n) ==
    LET r == (n + buckets \div 2) \div buckets
    IN  IF r < 1 THEN 1 ELSE r

\* Index of the first value, from pos on, that does not fall below boundary
\* (one past the end when every remaining value falls below it).
Absorb(sorted, pos, boundary) ==
    LET stay == {i \in pos..Len(sorted) : Tenths(sorted[i]) >= boundary}
    IN  IF stay = {} THEN Len(sorted) + 1
        ELSE CHOOSE i \in stay : \A j \in stay : i <= j

\* AddBucket leaving the new bucket's minimum at its first value.
AddBucketKeepsMin(bs, b) == Append(bs, b)

\* With a granularity a new bucket starts where the previous one ends.
AddBucket(bs, b) ==
    IF bs = <<>> THEN <<b>>
    ELSE Append(bs, [b EXCEPT !.min = bs[Len(bs)].max])

\* The bucket-filling loop: i is the bucket index, pos the next value.
RECURSIVE PopulateBuckets(_, _, _, _)
PopulateBuckets(sorted, i, pos, bs) ==
    IF i >= buckets \/ pos > Len(sorted) THEN bs
    ELSE IF i = buckets - 1
    THEN AddBucket(bs, [min |-> Tenths(sorted[pos]),
                        max |-> Tenths(sorted[Len(sorted)]),
                        n   |-> Len(sorted) - pos + 1])
    ELSE LET want     == pos + ApproxBucketSize(Len(sorted)) - 1
             fill     == IF want > Len(sorted) THEN Len(sorted) ELSE want
             boundary == RoundUp(Tenths(sorted[fill]))
             next     == Absorb(sorted, fill + 1, boundary)
             b        == [min |-> Tenths(sorted[pos]),
                          max |-> IF next <= Len(sorted) THEN boundary
                                  ELSE Tenths(sorted[next - 1]),
                          n   |-> next - pos]
         IN  PopulateBuckets(sorted, i + 1, next, AddBucket(bs, b))

\* {'$bucketAuto': {'groupBy': '$ModelTypes', 'buckets': 20,
\*                  'granularity': '1-2-5',
\*                  'output': {'CarMakesInBucket': {'$sum': 1}}}}
BucketAuto(docs) ==
    LET bs == PopulateBuckets(SortValues(docs), 0, 1, <<>>)
        k  == Len(bs)
    IN  [i \in 1..k |->
            [_id |-> [min |-> IF i = 1 THEN RoundDown(bs[i].min) ELSE bs[i].min,
                      max |-> IF i = k THEN RoundUp(bs[i].max) ELSE bs[i].max],
             CarMakesInBucket |-> bs[i].n]]

\* {'$project': {'_id': 0, 'MinUniqueModels': '$_id.min',
\*               'MaxUniqueModels': '$_id.max', 'CarMakesInBucket': 1}}
ProjectBuckets(docs) ==
    [i \in 1..Len(docs) |->
        [MinUniqueModels  |-> docs[i]._id.min,
         MaxUniqueModels  |-> docs[i]._id.max,
         CarMakesInBucket |-> docs[i].CarMakesInBucket]]

\* The output of the BucketedCarMakesByAmountOfUniqueModels facet for docs.
get_pipeline_bucketed_car_makes_by_amount_of_unique_models(docs) ==
    ProjectBuckets(BucketAuto(GroupByMake(GroupByMakeModel(Match(docs)))))

\* Facet returning no document at all when it is given no input.
FacetOfNonEmpty(docs) ==
    IF docs = <<>> THEN {<<>>}
    ELSE {<<[CategorisedCarsByFuelType |-> c,
             BucketedCarMakesByAmountOfUniqueModels |->
                 get_pipeline_bucketed_car_makes_by_amount_of_unique_models(docs)]>> :
             c \in get_pipeline_categorised_cars_by_fuel_type(docs)}

\* The documents a $facet stage can return: always exactly one document,
\* holding each facet's output list under the facet's name.
Facet(docs) ==
    {<<[CategorisedCarsByFuelType |-> c,
        BucketedCarMakesByAmountOfUniqueModels |->
            get_pipeline_bucketed_car_makes_by_amount_of_unique_models(docs)]>> :
        c \in get_pipeline_categorised_cars_by_fuel_type(docs)}

(***************************************************************************)
(* The sources the aggregation is run against                              *)
(***************************************************************************)

\* Every collection of at most MaxRecords documents, in every order.
SmallSources == SeqsUpTo(Record, MaxRecords)

\* Larger collections: c[k] Makes with k distinct Models each (k = 1, 2, 3),
\* followed by an UNCLASSIFIED document and a repeat of the first document.
\* With 30 Makes or more the stage's approximate bucket size becomes 2.
MakeName(k, j) == "M" \o ToString(k) \o "-" \o ToString(j)

ModelName(m) == "T" \o ToString(m)

ModelsOf(make, k) ==
    [m \in 1..k |-> [Make |-> make, Model |-> ModelName(m), FuelType |-> "PE"]]

RECURSIVE MakesOf(_, _)
MakesOf(k, j) ==
    IF j = 0 THEN <<>> ELSE MakesOf(k, j - 1) \o ModelsOf(MakeName(k, j), k)

Fleet(c) ==
    LET body == MakesOf(1, c[1]) \o MakesOf(2, c[2]) \o MakesOf(3, c[3])
    IN  IF body = <<>> THEN body
        ELSE body \o <<[Make |-> UNCLASSIFIED, Model |-> "T1", FuelType |-> "DI"],
                       body[1]>>

FleetSources ==
    {Fleet(<<one, two, three>>) :
        one \in 0..2, two \in {0, 1, 2, MaxFleet}, three \in 0..2}

Sources == SmallSources \cup FleetSources

(***************************************************************************)
(* mot_vehicle_aggregate                                                   *)
(***************************************************************************)
Line(kind, payload) == [kind |-> kind, payload |-> payload]

InsertIdle ==
    /\ ipc = "idle"
    /\ count = 1
    /\ records = <<>>
    /\ attempts = <<>>
    /\ dots = 0
    /\ failedAt = 0

Init ==
    /\ source \in Sources
    /\ pc = "start"
    /\ client = "none"
    /\ result = <<>>
    /\ out = <<>>
    /\ requests = 0
    /\ InsertIdle

\* client = MongoClient(MONGODB_URL); db = client.mot
Connect ==
    /\ pc = "start"
    /\ client' = "open"
    /\ pc' = "connected"
    /\ UNCHANGED <<source, result, out, requests>>
    /\ UNCHANGED insVars

\* The constructor raises when the driver connects eagerly and cannot.
ConnectFails ==
    /\ pc = "start"
    /\ pc' = "aborted"
    /\ UNCHANGED <<source, client, result, out, requests>>
    /\ UNCHANGED insVars

\* print 'Aggregation starting ...'
PrintStart ==
    /\ pc = "connected"
    /\ out' = Append(out, Line("starting", <<>>))
    /\ pc' = "started"
    /\ UNCHANGED <<source, client, result, requests>>
    /\ UNCHANGED insVars

\* The one request carrying both facets, answered by the server.
Aggregate ==
    /\ pc = "started"
    /\ requests' = requests + 1
    /\ \E r \in Facet(source) :
          result' = IF SHOW_EXPLAIN_PLAN THEN <<"explain">> ELSE r
    /\ pc' = "aggregated"
    /\ UNCHANGED <<source, client, out>>
    /\ UNCHANGED insVars

\* AggregateFails with the failure swallowed and an empty report printed.
AggregateFailsPrinting ==
    /\ pc = "started"
    /\ requests' = requests + 1
    /\ out' = Append(out, Line("result", <<>>))
    /\ pc' = "aborted"
    /\ UNCHANGED <<source, client, result>>
    /\ UNCHANGED insVars

\* The request raises (no connection, or a stage of either facet fails):
\* the exception leaves mot_vehicle_aggregate and ends the script.
AggregateFails ==
    /\ pc = "started"
    /\ requests' = requests + 1
    /\ pc' = "aborted"
    /\ UNCHANGED <<source, client, result, out>>
    /\ UNCHANGED insVars

\* pprint(result)
PrintResult ==
    /\ pc = "aggregated"
    /\ out' = Append(out, Line("result", result))
    /\ pc' = "printed"
    /\ UNCHANGED <<source, client, result, requests>>
    /\ UNCHANGED insVars

\* print 'Aggregation finished ...'
PrintFinish ==
    /\ pc = "printed"
    /\ out' = Append(out, Line("finished", <<>>))
    /\ pc' = "finished"
    /\ UNCHANGED <<source, client, result, requests>>
    /\ UNCHANGED insVars

\* db.close: an attribute lookup on the Database (it names the collection
\* 'close'); nothing is called, the connection stays as it is.
Close ==
    /\ pc = "finished"
    /\ pc' = "returned"
    /\ UNCHANGED <<source, client, result, out, requests>>
    /\ UNCHANGED insVars

Next ==
    \/ Connect
    \/ ConnectFails
    \/ PrintStart
    \/ Aggregate
    \/ AggregateFails
    \/ PrintResult
    \/ PrintFinish
    \/ Close

Spec == Init /\ [][Next]_vars

(***************************************************************************)
(* insertdata.py                                                           *)
(***************************************************************************)
AggregateIdle ==
    /\ source = <<>>
    /\ pc = "idle"
    /\ client = "none"
    /\ result = <<>>
    /\ out = <<>>
    /\ requests = 0

\* connection, db, count = 1, print 'Running'
InitInsert ==
    /\ ipc = "insert"
    /\ count = 1
    /\ records = <<>>
    /\ attempts = <<>>
    /\ dots = 0
    /\ failedAt = 0
    /\ AggregateIdle

\* db.records.insert({'date ': ..., 'count': count, 'value': randint(0, 9999)})
Insert ==
    /\ ipc = "insert"
    /\ count <= MaxCount
    /\ \E v \in Values :
          records' = Append(records, [count |-> count, value |-> v])
    /\ attempts' = Append(attempts, count)
    /\ ipc' = "print"
    /\ UNCHANGED <<count, dots, failedAt>>
    /\ UNCHANGED aggVars

\* InsertFails with the exception caught and the insert tried again.
InsertFailsRetried ==
    /\ ipc = "insert"
    /\ count <= MaxCount
    /\ attempts' = Append(attempts, count)
    /\ failedAt' = count
    /\ ipc' = "insert"
    /\ UNCHANGED <<count, records, dots>>
    /\ UNCHANGED aggVars

\* insert raises: nothing catches it, the script ends with the traceback.
\* The server may or may not have stored the document before the error.
InsertFails ==
    /\ ipc = "insert"
    /\ count <= MaxCount
    /\ \E v \in Values, stored \in BOOLEAN :
          records' = IF stored
                     THEN Append(records, [count |-> count, value |-> v])
                     ELSE records
    /\ attempts' = Append(attempts, count)
    /\ failedAt' = count
    /\ ipc' = "crashed"
    /\ UNCHANGED <<count, dots>>
    /\ UNCHANGED aggVars

\* if (count % 5) == 0: print ('.'),   then sys.stdout.flush()
PrintDot ==
    /\ ipc = "print"
    /\ dots' = IF count % DotEvery = 0 THEN dots + 1 ELSE dots
    /\ ipc' = "incr"
    /\ UNCHANGED <<count, records, attempts, failedAt>>
    /\ UNCHANGED aggVars

\* Increment adding 2.
IncrementTwice ==
    /\ ipc = "incr"
    /\ count' = count + 2
    /\ ipc' = "sleep"
    /\ UNCHANGED <<records, attempts, dots, failedAt>>
    /\ UNCHANGED aggVars

\* count += 1
Increment ==
    /\ ipc = "incr"
    /\ count' = count + 1
    /\ ipc' = "sleep"
    /\ UNCHANGED <<records, attempts, dots, failedAt>>
    /\ UNCHANGED aggVars

\* time.sleep(0.1), then back to the head of 'while True'
Sleep ==
    /\ ipc = "sleep"
    /\ ipc' = "insert"
    /\ UNCHANGED <<count, records, attempts, dots, failedAt>>
    /\ UNCHANGED aggVars

NextInsert ==
    \/ Insert
    \/ InsertFails
    \/ PrintDot
    \/ Increment
    \/ Sleep

SpecInsert == InitInsert /\ [][NextInsert]_vars

\* The interpreter keeps executing the script's single thread.
FairSpecInsert == SpecInsert /\ WF_vars(NextInsert)

(***************************************************************************)
(* What the facets are expected to compute, stated on the source itself    *)
(***************************************************************************)
Classified(d) == d.Make # UNCLASSIFIED /\ d.Model # UNCLASSIFIED

Retained(s) == {d \in Range(s) : Classified(d)}

RetainedMakes(s) == {d.Make : d \in Retained(s)}

DistinctModels(s, make) == {d.Model : d \in {e \in Retained(s) : e.Make = make}}

FuelTypesIn(s) == {d.FuelType : d \in Range(s)}

CarsWithFuelType(s, f) == Cardinality({i \in 1..Len(s) : s[i].FuelType = f})

RECURSIVE SumCarMakes(_, _)
SumCarMakes(b, i) ==
    IF i > Len(b) THEN 0 ELSE b[i].CarMakesInBucket + SumCarMakes(b, i + 1)

InsertAt(s, i, d) == SubSeq(s, 1, i) \o <<d>> \o SubSeq(s, i + 1, Len(s))

\* The source with its documents i and i+1 exchanged.
Exchanged(s, i) ==
    [j \in 1..Len(s) |-> IF j = i THEN s[i + 1] ELSE IF j = i + 1 THEN s[i] ELSE s[j]]

\* Every exchange of two neighbouring documents (any permutation is a chain
\* of these), and the reversal of the source.
Rearrangements(s) ==
    {Exchanged(s, i) : i \in 1..Len(s) - 1} \cup {[i \in 1..Len(s) |-> s[Len(s) + 1 - i]]}

Answered == pc \in {"aggregated", "printed", "finished", "returned"}

Kinds(o) == [i \in 1..Len(o) |-> o[i].kind]

CarsByFuelType == result[1].CategorisedCarsByFuelType

CarMakeBuckets == result[1].BucketedCarMakesByAmountOfUniqueModels

FedToBucketing(s) == GroupByMake(GroupByMakeModel(Match(s)))

(***************************************************************************)
(* Claims                                                                  *)
(***************************************************************************)

\* C1: the CategorisedCarsByFuelType facet returns exactly one record per
\* FuelType present in the source, its CarAmount is the number of source
\* records (UNCLASSIFIED ones included) with that FuelType, and the records
\* come in descending order of CarAmount.
C1_FuelTypeCounts ==
    Answered =>
        /\ {CarsByFuelType[i].FuelType : i \in 1..Len(CarsByFuelType)} = FuelTypesIn(source)
        /\ Len(CarsByFuelType) = Cardinality(FuelTypesIn(source))
        /\ \A i \in 1..Len(CarsByFuelType) :
              CarsByFuelType[i].CarAmount =
                  CarsWithFuelType(source, CarsByFuelType[i].FuelType)
        /\ \A i \in 1..Len(CarsByFuelType) - 1 :
              CarsByFuelType[i].CarAmount >= CarsByFuelType[i + 1].CarAmount

C1_Witness ==
    /\ pc = "printed"
    /\ Len(CarsByFuelType) = 2
    /\ CarsByFuelType[1].CarAmount > CarsByFuelType[2].CarAmount
    /\ \E d \in Range(source) : ~Classified(d)

\* C2: records whose Make or Model is UNCLASSIFIED are dropped before the
\* first group stage; the buckets are those of the source without such
\* records, and adding one such record anywhere changes no bucket.
C2_UnclassifiedExcluded ==
    pc = "aggregated" =>
        /\ \A g \in GroupByMakeModel(Match(source)) :
              g._id.Make # UNCLASSIFIED /\ g._id.Model # UNCLASSIFIED
        /\ CarMakeBuckets =
              get_pipeline_bucketed_car_makes_by_amount_of_unique_models(
                  SelectSeq(source, Classified))
        /\ \A d \in {e \in Record : ~Classified(e)}, i \in {0, Len(source)} :
              get_pipeline_bucketed_car_makes_by_amount_of_unique_models(
                  InsertAt(source, i, d)) = CarMakeBuckets

C2_Witness ==
    /\ pc = "aggregated"
    /\ Len(source) = 2
    /\ source[1].Make = UNCLASSIFIED
    /\ source[1].Model # UNCLASSIFIED
    /\ Classified(source[2])
    /\ Len(CarMakeBuckets) = 1
    /\ CarMakeBuckets[1].CarMakesInBucket = 1

\* C3: the bucketing stage receives one document per Make of the retained
\* records, whose ModelTypes is the number of distinct Models of that Make;
\* repeated (Make, Model) pairs count once.
C3_DistinctModelsPerMake ==
    pc = "aggregated" =>
        LET fed == FedToBucketing(source)
        IN  /\ {g._id : g \in fed} = RetainedMakes(source)
            /\ Cardinality(fed) = Cardinality(RetainedMakes(source))
            /\ \A g \in fed :
                  g.ModelTypes = Cardinality(DistinctModels(source, g._id))
            /\ SumCarMakes(CarMakeBuckets, 1) = Cardinality(fed)

C3_Witness ==
    /\ pc = "aggregated"
    /\ \E i, j \in 1..Len(source) :
          i < j /\ source[i] = source[j] /\ Classified(source[i])
    /\ \E g \in FedToBucketing(source) : g.ModelTypes = 2

\* C4: the buckets have non-decreasing boundaries, each bucket ends where
\* the next begins, every observed ModelTypes value lies in a bucket
\* (minimum inclusive, maximum exclusive), and the CarMakesInBucket counts
\* add up to the number of distinct Makes among the retained records.
C4_BucketBoundaries ==
    Answered =>
        /\ \A i \in 1..Len(CarMakeBuckets) :
              CarMakeBuckets[i].MinUniqueModels <= CarMakeBuckets[i].MaxUniqueModels
        /\ \A i \in 1..Len(CarMakeBuckets) - 1 :
              CarMakeBuckets[i].MaxUniqueModels = CarMakeBuckets[i + 1].MinUniqueModels
        /\ \A make \in RetainedMakes(source) :
              \E i \in 1..Len(CarMakeBuckets) :
                  /\ CarMakeBuckets[i].MinUniqueModels
                        <= Tenths(Cardinality(DistinctModels(source, make)))
                  /\ Tenths(Cardinality(DistinctModels(source, make)))
                        < CarMakeBuckets[i].MaxUniqueModels
        /\ SumCarMakes(CarMakeBuckets, 1) = Cardinality(RetainedMakes(source))

C4_Witness ==
    /\ pc = "finished"
    /\ Cardinality(RetainedMakes(source)) >= 30
    /\ Len(CarMakeBuckets) = 2
    /\ CarMakeBuckets[1].CarMakesInBucket > 1
    /\ CarMakeBuckets[2].MaxUniqueModels = Tenths(5)

\* C5: for an empty source the answer is one report mapping both facet
\* names to empty lists, and that report is what gets printed; when every
\* record is UNCLASSIFIED the bucketed facet is the empty list.
C5_EmptyReport ==
    /\ (Answered /\ source = <<>>) =>
          result = <<[CategorisedCarsByFuelType |-> <<>>,
                      BucketedCarMakesByAmountOfUniqueModels |-> <<>>]>>
    /\ (Answered /\ Retained(source) = {}) =>
          /\ Len(result) = 1
          /\ CarMakeBuckets = <<>>
    /\ (pc = "returned" /\ Retained(source) = {}) =>
          /\ Kinds(out) = <<"starting", "result", "finished">>
          /\ out[2].payload = result

C5_Witness ==
    /\ pc = "returned"
    /\ source = <<>>
    /\ Len(out) = 3
    /\ out[2].payload[1].CategorisedCarsByFuelType = <<>>

\* C6: when the run is aborted by a failure, neither a report nor the
\* 'Aggregation finished' message has been printed.
C6_AbortPrintsNoReport ==
    pc = "aborted" =>
        \A i \in 1..Len(out) : out[i].kind \notin {"result", "finished"}

C6_Witness ==
    /\ pc = "aborted"
    /\ requests = 1
    /\ Kinds(out) = <<"starting">>
    /\ source # <<>>

\* C7: rearranging the source changes neither the set of documents a group
\* stage yields, nor the set of records of CategorisedCarsByFuelType, nor
\* the list of buckets of BucketedCarMakesByAmountOfUniqueModels.
C7_OrderIndependent ==
    pc = "aggregated" =>
        \A s \in Rearrangements(source) :
            /\ GroupByFuelType(s) = GroupByFuelType(source)
            /\ GroupByMakeModel(Match(s)) = GroupByMakeModel(Match(source))
            /\ FedToBucketing(s) = FedToBucketing(source)
            /\ \A r \in Facet(s) :
                  /\ Range(r[1].CategorisedCarsByFuelType) = Range(CarsByFuelType)
                  /\ r[1].BucketedCarMakesByAmountOfUniqueModels = CarMakeBuckets

C7_Witness ==
    /\ pc = "aggregated"
    /\ \E i, j, k \in 1..Len(source) :
          /\ i < j /\ j < k
          /\ source[i].FuelType = source[k].FuelType
          /\ source[i].FuelType # source[j].FuelType
    /\ Cardinality(RetainedMakes(source)) > 1

Counts(s) == [i \in 1..Len(s) |-> s[i].count]

\* C8: while no insert has failed the script is inside its loop, every
\* pass has inserted exactly one record, the n-th record carries count n,
\* and every count up to the bound is eventually inserted (or an insert
\* fails first).
C8_CountsRunOn ==
    /\ [](failedAt = 0 =>
            /\ ipc \in {"insert", "print", "incr", "sleep"}
            /\ Counts(records) = [i \in 1..Len(records) |-> i]
            /\ attempts = Counts(records)
            /\ Len(records) = IF ipc \in {"print", "incr"} THEN count ELSE count - 1)
    /\ \A n \in 1..MaxCount :
          <>(failedAt # 0 \/ (Len(records) >= n /\ records[n].count = n))

C8_Witness ==
    /\ failedAt = 0
    /\ ipc = "sleep"
    /\ Len(records) = MaxCount
    /\ records[MaxCount].count = MaxCount
    /\ dots = 1

\* C9: once the insert of count n has raised, the script has stopped with
\* count still n, n was handed to insert exactly once, and no stored record
\* carries a count above n.
C9_NoRetry ==
    failedAt # 0 =>
        /\ ipc = "crashed"
        /\ count = failedAt
        /\ Cardinality({i \in 1..Len(attempts) : attempts[i] = failedAt}) = 1
        /\ attempts[Len(attempts)] = failedAt
        /\ \A i \in 1..Len(records) : records[i].count <= failedAt

C9_Witness ==
    /\ ipc = "crashed"
    /\ failedAt = 3
    /\ Counts(records) = <<1, 2>>
    /\ attempts = <<1, 2, 3>>

\* C10: when mot_vehicle_aggregate has returned, the connection it opened
\* is closed, after exactly one aggregate request and the three prints in
\* order.
C10_ClosedOnReturn ==
    pc = "returned" =>
        /\ client = "closed"
        /\ requests = 1
        /\ Kinds(out) = <<"starting", "result", "finished">>

====
